---- MODULE Spec2Model ----
(***************************************************************************)
(* The external scanner of tree-sitter-codon (src/src/scanner.c): its      *)
(* state store (indent stack, delimiter stack, f-string flag), the         *)
(* serialize / deserialize protocol and the scan dispatcher with its two   *)
(* recognisers, scan_string and scan_newline.                              *)
(*                                                                         *)
(* The input text is a sequence of runs [c |-> code point, n |-> length];  *)
(* a cursor is an absolute character offset into the text.  A loop of the  *)
(* code that steps over a run of equal characters one at a time is taken   *)
(* in one step to the end of the run (RunEnd); everything else advances    *)
(* one character at a time, as the code does.                              *)
(***************************************************************************)
EXTENDS Integers, Sequences, FiniteSets, TLC

VARIABLES input, pos, indents, delimiters, inside_f_string, buffer, snapshot, last

vars == <<input, pos, indents, delimiters, inside_f_string, buffer, snapshot, last>>

(* ------------------------------ bounds --------------------------------- *)

\* Every text of at most MaxLen runs over Alphabet is an input (besides Scenarios).
MaxLen == 2

(* ---------------------------- characters ------------------------------- *)

SP == 32
TAB == 9
LF == 10
CR == 13
HASH == 35
DQ == 34
SQ == 39
LBRACE == 123
BSL == 92
\* uint16_t: the element type of Scanner.indents
IndentModulus == 65536
\* TREE_SITTER_SERIALIZATION_BUFFER_SIZE (tree_sitter/parser.h)
BufferSize == 1024

One(c) == [c |-> c, n |-> 1]
Run(c, k) == [c |-> c, n |-> k]

(* ------------------------------ TokenType ------------------------------ *)

LineKinds == {"NEWLINE", "INDENT", "DEDENT"}
StringKinds == {"STRING_START", "STRING_CONTENT", "ESCAPE_INTERPOLATION", "STRING_END"}
TokenType == LineKinds \cup StringKinds

(* ------------------------------ TSLexer -------------------------------- *)

RECURSIVE TotalFrom(_, _)
TotalFrom(inp, i) == IF i > Len(inp) THEN 0 ELSE inp[i].n + TotalFrom(inp, i + 1)

\* number of characters of the text
Total == TotalFrom(input, 1)

RECURSIVE CharFrom(_, _, _)
CharFrom(inp, i, p) ==
  IF i > Len(inp) THEN 0
  ELSE IF p < inp[i].n THEN inp[i].c
  ELSE CharFrom(inp, i + 1, p - inp[i].n)

\* lexer->lookahead with the cursor at offset p; 0 at end of input
lookahead(p) == CharFrom(input, 1, p)

\* lexer->eof(lexer)
eof(p) == p >= Total

RECURSIVE RunEndFrom(_, _, _, _)
RunEndFrom(inp, i, base, p) ==
  IF i > Len(inp) THEN p
  ELSE IF p < base + inp[i].n THEN base + inp[i].n
  ELSE RunEndFrom(inp, i + 1, base + inp[i].n, p)

\* the offset after the last character of the run that holds offset p
RunEnd(p) == RunEndFrom(input, 1, 0, p)

is_space(c) == c = SP \/ c = TAB

is_newline(c) == c = LF \/ c = CR

(* ------------------------------ Scanner -------------------------------- *)

Scanner(ind, del, f) == [indents |-> ind, delimiters |-> del, inside_f_string |-> f]

\* tree_sitter_codon_external_scanner_create
create == Scanner(<<>>, <<>>, FALSE)

self == Scanner(indents, delimiters, inside_f_string)

\* the fields of a packed delimiter
quote_of(delim) == delim % 256
triple_of(delim) == (delim \div 256) % 2 = 1
raw_of(delim) == (delim \div 512) % 2 = 1
format_of(delim) == (delim \div 1024) % 2 = 1

pack_delim(quote_char, is_triple, is_raw, is_format) ==
  quote_char + (IF is_triple THEN 256 ELSE 0) + (IF is_raw THEN 512 ELSE 0)
             + (IF is_format THEN 1024 ELSE 0)

Top(s) == s[Len(s)]
Pop(s) == SubSeq(s, 1, Len(s) - 1)

(* ---------------------------- scan_newline ----------------------------- *)

\* while (is_space(lexer->lookahead)) skip(lexer);
RECURSIVE skip_spaces(_)
skip_spaces(p) == IF is_space(lookahead(p)) THEN skip_spaces(RunEnd(p)) ELSE p

\* while (lookahead is no line terminator and not 0) skip(lexer);
RECURSIVE skip_comment(_)
skip_comment(p) ==
  IF is_newline(lookahead(p)) \/ lookahead(p) = 0 THEN p ELSE skip_comment(RunEnd(p))

\* one line terminator: a character, and a following '\n'
after_terminator(p) == IF lookahead(p + 1) = LF THEN p + 2 ELSE p + 1

\* uint32_t indent: the count of the spaces and tabs skipped from p to q (the
\* texts here are shorter than 2^32 characters, so the count never wraps)
measured(p, q) == q - p

\* the loop that skips blank lines and comments; p is the cursor, indent the
\* width measured for the line the cursor is on
RECURSIVE skip_blank_lines(_, _)
skip_blank_lines(p, indent) ==
  IF is_newline(lookahead(p)) \/ lookahead(p) = HASH
  THEN LET q1 == IF lookahead(p) = HASH THEN skip_comment(p) ELSE p
           q2 == IF is_newline(lookahead(q1)) THEN after_terminator(q1) ELSE q1
           q3 == skip_spaces(q2)
       IN  skip_blank_lines(q3, measured(q2, q3))
  ELSE [pos |-> p, indent |-> indent]

\* array_push(&scanner->indents, indent): the uint32_t width stored as uint16_t
push_indent(ind, indent) == Append(ind, indent % IndentModulus)

\* a plausible slip: the level popped before DEDENT is known to be acceptable
decide_line_pops(sc, indent, valid) ==
  LET current_indent == IF Len(sc.indents) > 0 THEN Top(sc.indents) ELSE 0
  IN  IF indent > current_indent /\ "INDENT" \in valid
      THEN [ok |-> TRUE, sym |-> "INDENT",
            sc |-> [sc EXCEPT !.indents = push_indent(sc.indents, indent)]]
      ELSE IF indent < current_indent
      THEN [ok |-> "DEDENT" \in valid \/ "NEWLINE" \in valid,
            sym |-> IF "DEDENT" \in valid THEN "DEDENT" ELSE "NEWLINE",
            sc |-> [sc EXCEPT !.indents = Pop(sc.indents)]]
      ELSE [ok |-> "NEWLINE" \in valid, sym |-> "NEWLINE", sc |-> sc]

\* the INDENT / DEDENT / NEWLINE decision of scan_newline
decide_line(sc, indent, valid) ==
  LET current_indent == IF Len(sc.indents) > 0 THEN Top(sc.indents) ELSE 0
  IN  IF indent > current_indent /\ "INDENT" \in valid
      THEN [ok |-> TRUE, sym |-> "INDENT",
            sc |-> [sc EXCEPT !.indents = push_indent(sc.indents, indent)]]
      ELSE IF indent < current_indent /\ "DEDENT" \in valid
      THEN [ok |-> TRUE, sym |-> "DEDENT", sc |-> [sc EXCEPT !.indents = Pop(sc.indents)]]
      ELSE [ok |-> "NEWLINE" \in valid, sym |-> "NEWLINE", sc |-> sc]

\* scan_newline entered with the cursor at p and the token end marked at mark
\* (-1: not marked)
scan_newline(sc, p, mark, valid) ==
  LET p1 == skip_spaces(p)
      p2 == IF lookahead(p1) = HASH THEN skip_comment(p1) ELSE p1
  IN  IF ~is_newline(lookahead(p2))
      THEN [ok |-> FALSE, pos |-> p2, mark |-> mark, sym |-> "NONE", sc |-> sc]
      ELSE LET p3 == after_terminator(p2)
               p4 == skip_spaces(p3)
               b  == skip_blank_lines(p4, measured(p3, p4))
               d  == decide_line(sc, b.indent, valid)
           IN  [ok |-> d.ok, pos |-> b.pos, mark |-> p3, sym |-> d.sym, sc |-> d.sc]

(* ----------------------------- scan_string ----------------------------- *)

is_raw_prefix(c) == c \in {114, 82}
is_format_prefix(c) == c \in {102, 70}
is_bytes_prefix(c) == c \in {98, 66}
is_unicode_prefix(c) == c \in {117, 85}

\* the loop over the prefix letters r, f, b, u (either case)
RECURSIVE scan_prefix(_, _, _)
scan_prefix(p, is_raw, is_format) ==
  LET c == lookahead(p)
  IN  IF is_raw_prefix(c) THEN scan_prefix(p + 1, TRUE, is_format)
      ELSE IF is_format_prefix(c) THEN scan_prefix(p + 1, is_raw, TRUE)
      ELSE IF is_bytes_prefix(c) \/ is_unicode_prefix(c) THEN scan_prefix(p + 1, is_raw, is_format)
      ELSE [pos |-> p, is_raw |-> is_raw, is_format |-> is_format]

\* the delimiter pushed on STRING_START and the flag set with it
push_delimiter(sc, delim, is_format) ==
  [sc EXCEPT !.delimiters = Append(sc.delimiters, delim), !.inside_f_string = is_format]

\* a plausible slip: the empty literal not returned early, its delimiter pushed
empty_literal_pushed(sc, delim, is_format) == push_delimiter(sc, delim, is_format)

\* the state after the empty literal: the function returns before the delimiter
\* is packed and pushed, so the stacks and the flag stay as they were
empty_literal(sc, delim, is_format) == sc

\* the start phase; "fall" means the phase returned nothing and the function
\* goes on to the content phase with the cursor where the prefix loop left it
string_start(sc, p, mark, valid) ==
  IF "STRING_START" \notin valid
  THEN [ret |-> "fall", pos |-> p, mark |-> mark, sym |-> "NONE", sc |-> sc]
  ELSE LET pre == scan_prefix(p, FALSE, FALSE)
           q == pre.pos
           quote_char == lookahead(q)
       IN  IF quote_char \notin {DQ, SQ}
           THEN [ret |-> "fall", pos |-> q, mark |-> mark, sym |-> "NONE", sc |-> sc]
           ELSE IF lookahead(q + 1) = quote_char /\ lookahead(q + 2) # quote_char
           THEN \* the empty literal: two quotes
                [ret |-> "true", pos |-> q + 2, mark |-> q + 2, sym |-> "STRING_START",
                 sc |-> empty_literal(sc, pack_delim(quote_char, FALSE, pre.is_raw, pre.is_format),
                                      pre.is_format)]
           ELSE LET is_triple == lookahead(q + 1) = quote_char
                    e == IF is_triple THEN q + 3 ELSE q + 1
                    delim == pack_delim(quote_char, is_triple, pre.is_raw, pre.is_format)
                IN  [ret |-> "true", pos |-> e, mark |-> e, sym |-> "STRING_START",
                     sc |-> push_delimiter(sc, delim, pre.is_format)]

\* a plausible slip: the escape branch left out
escapes_never(delim) == FALSE

\* whether a backslash starts a two-character escape in a string of this delimiter
escapes(delim) == ~raw_of(delim)

\* a plausible slip: the line terminator check left out
stops_at_newline_never(delim) == FALSE

\* whether a line terminator ends the content scan of a string of this delimiter
stops_at_newline(delim) == ~triple_of(delim)

\* the content loop: p the cursor, mark the marked token end, has_content the flag.
\* ret: "content" / "escape" (returned true), "false" (returned false),
\* "break" (left the loop)
RECURSIVE content_loop(_, _, _, _)
content_loop(delim, p, mark, has_content) ==
  LET c == lookahead(p)
      quote_char == quote_of(delim)
  IN  IF c = 0 THEN [ret |-> "break", pos |-> p, mark |-> mark, has |-> has_content]
      ELSE IF c = quote_char
      THEN IF triple_of(delim)
           THEN IF lookahead(p + 1) = quote_char
                THEN IF lookahead(p + 2) = quote_char
                     THEN [ret |-> IF has_content THEN "content" ELSE "break",
                           pos |-> p + 2, mark |-> p, has |-> has_content]
                     ELSE content_loop(delim, p + 2, p, TRUE)
                ELSE content_loop(delim, p + 1, p, TRUE)
           ELSE [ret |-> "break", pos |-> p, mark |-> mark, has |-> has_content]
      ELSE IF stops_at_newline(delim) /\ is_newline(c)
      THEN [ret |-> "break", pos |-> p, mark |-> mark, has |-> has_content]
      ELSE IF format_of(delim) /\ c = LBRACE
      THEN IF has_content
           THEN [ret |-> "content", pos |-> p, mark |-> p, has |-> TRUE]
           ELSE IF lookahead(p + 1) = LBRACE
           THEN [ret |-> "escape", pos |-> p + 2, mark |-> p + 2, has |-> TRUE]
           ELSE [ret |-> "false", pos |-> p + 1, mark |-> mark, has |-> FALSE]
      ELSE IF escapes(delim) /\ c = BSL
      THEN content_loop(delim, IF lookahead(p + 1) # 0 THEN p + 2 ELSE p + 1, mark, TRUE)
      ELSE content_loop(delim, IF c = SP THEN RunEnd(p) ELSE p + 1, mark, TRUE)

\* the content phase
string_content(sc, p, mark, valid) ==
  IF ~("STRING_CONTENT" \in valid /\ Len(sc.delimiters) > 0)
  THEN [ret |-> "fall", pos |-> p, mark |-> mark, sym |-> "NONE", sc |-> sc]
  ELSE LET r == content_loop(Top(sc.delimiters), p, mark, FALSE)
       IN  IF r.ret = "content"
           THEN [ret |-> "true", pos |-> r.pos, mark |-> r.mark, sym |-> "STRING_CONTENT", sc |-> sc]
           ELSE IF r.ret = "escape"
           THEN [ret |-> "true", pos |-> r.pos, mark |-> r.mark, sym |-> "ESCAPE_INTERPOLATION", sc |-> sc]
           ELSE IF r.ret = "false"
           THEN [ret |-> "false", pos |-> r.pos, mark |-> r.mark, sym |-> "NONE", sc |-> sc]
           ELSE IF r.has
           THEN [ret |-> "true", pos |-> r.pos, mark |-> r.pos, sym |-> "STRING_CONTENT", sc |-> sc]
           ELSE [ret |-> "fall", pos |-> r.pos, mark |-> r.mark, sym |-> "NONE", sc |-> sc]

\* a plausible slip: the pop without the flag recomputed
pop_delimiter_stale(sc) == [sc EXCEPT !.delimiters = Pop(sc.delimiters)]

\* array_pop(&scanner->delimiters) and the flag recomputed from the new top
pop_delimiter(sc) ==
  LET rest == Pop(sc.delimiters)
  IN  [sc EXCEPT !.delimiters = rest,
                 !.inside_f_string = Len(rest) > 0 /\ format_of(Top(rest))]

\* the end phase
string_end(sc, p, mark, valid) ==
  IF ~("STRING_END" \in valid /\ Len(sc.delimiters) > 0)
  THEN [ret |-> "false", pos |-> p, mark |-> mark, sym |-> "NONE", sc |-> sc]
  ELSE LET delim == Top(sc.delimiters)
           quote_char == quote_of(delim)
       IN  IF lookahead(p) # quote_char
           THEN [ret |-> "false", pos |-> p, mark |-> mark, sym |-> "NONE", sc |-> sc]
           ELSE IF ~triple_of(delim)
           THEN [ret |-> "true", pos |-> p + 1, mark |-> p + 1, sym |-> "STRING_END",
                 sc |-> pop_delimiter(sc)]
           ELSE IF lookahead(p + 1) # quote_char
           THEN [ret |-> "false", pos |-> p + 1, mark |-> mark, sym |-> "NONE", sc |-> sc]
           ELSE IF lookahead(p + 2) # quote_char
           THEN [ret |-> "false", pos |-> p + 2, mark |-> mark, sym |-> "NONE", sc |-> sc]
           ELSE [ret |-> "true", pos |-> p + 3, mark |-> p + 3, sym |-> "STRING_END",
                 sc |-> pop_delimiter(sc)]

Returned(r) == [ok |-> r.ret = "true", pos |-> r.pos, mark |-> r.mark, sym |-> r.sym, sc |-> r.sc]

scan_string(sc, p, mark, valid) ==
  LET s == string_start(sc, p, mark, valid)
  IN  IF s.ret # "fall" THEN Returned(s)
      ELSE LET c == string_content(sc, s.pos, s.mark, valid)
           IN  IF c.ret # "fall" THEN Returned(c)
               ELSE Returned(string_end(sc, c.pos, c.mark, valid))

(* ------------------ tree_sitter_codon_external_scanner_scan ------------ *)

\* a plausible slip: the forced DEDENT held back while a literal is open
forced_dedent_closed(sc, p, valid) ==
  "DEDENT" \in valid /\ Len(sc.indents) > 0 /\ eof(p) /\ Len(sc.delimiters) = 0

\* the DEDENT forced at end of input
forced_dedent(sc, p, valid) == "DEDENT" \in valid /\ Len(sc.indents) > 0 /\ eof(p)

\* a plausible slip: line structure tried before the strings
scan_lines_first(sc, p, valid) ==
  IF forced_dedent(sc, p, valid)
  THEN [ok |-> TRUE, pos |-> p, mark |-> -1, sym |-> "DEDENT",
        sc |-> [sc EXCEPT !.indents = Pop(sc.indents)]]
  ELSE LET n == IF valid \cap LineKinds # {}
                THEN scan_newline(sc, p, -1, valid)
                ELSE [ok |-> FALSE, pos |-> p, mark |-> -1, sym |-> "NONE", sc |-> sc]
       IN  IF n.ok THEN n
           ELSE IF valid \cap StringKinds # {}
           THEN scan_string(sc, n.pos, n.mark, valid)
           ELSE [n EXCEPT !.sym = "NONE"]

scan(sc, p, valid) ==
  IF forced_dedent(sc, p, valid)
  THEN [ok |-> TRUE, pos |-> p, mark |-> -1, sym |-> "DEDENT",
        sc |-> [sc EXCEPT !.indents = Pop(sc.indents)]]
  ELSE LET s == IF valid \cap StringKinds # {}
                THEN scan_string(sc, p, -1, valid)
                ELSE [ok |-> FALSE, pos |-> p, mark |-> -1, sym |-> "NONE", sc |-> sc]
       IN  IF s.ok THEN s
           ELSE IF valid \cap LineKinds # {}
           THEN LET n == scan_newline(sc, s.pos, s.mark, valid)
                IN  IF n.ok THEN n ELSE [n EXCEPT !.sym = "NONE"]
           ELSE s

\* where the token ends: the marked end, or the cursor when none was marked
token_end(r) == IF r.mark = -1 THEN r.pos ELSE r.mark

(* ----------------------- serialize / deserialize ------------------------ *)

\* memcpy of a uint16_t / a 32-bit value: the bytes in host (little-endian) order.
\* Counts and delimiters are non-negative and below 2^31 in every state here.
bytes16(v) == <<v % 256, (v \div 256) % 256>>
bytes32(v) == <<v % 256, (v \div 256) % 256, (v \div 65536) % 256, (v \div 16777216) % 256>>

\* a plausible slip: the two bytes of a width read in the other order
word16_swapped(b, at) == 256 * b[at + 1] + b[at + 2]

word16(b, at) == b[at + 1] + 256 * b[at + 2]
word32(b, at) == b[at + 1] + 256 * b[at + 2] + 65536 * b[at + 3] + 16777216 * b[at + 4]

\* the smaller of two numbers
Min(a, b) == IF a < b THEN a ELSE b

\* the bytes of the first k elements of a stack, `width` bytes each, in order
element_bytes(stack, k, width) ==
  [j \in 1..(k * width) |->
     (IF width = 2 THEN bytes16(stack[((j - 1) \div width) + 1])
                   ELSE bytes32(stack[((j - 1) \div width) + 1]))[((j - 1) % width) + 1]]

\* a plausible slip: the elements written without the capacity check
write_elements_unchecked(stack, i, width, buf) ==
  [ok |-> TRUE, buf |-> buf \o element_bytes(stack, Len(stack), width)]

\* the loop that writes the elements of a stack, `width` bytes each, after the
\* Len(buf) bytes written so far: it writes the elements that fit below
\* BufferSize, and ok is FALSE when one does not fit (the function returns 0).
\* The loop is entered with i = 1.
write_elements(stack, i, width, buf) ==
  LET fit == Min(Len(stack), (BufferSize - Len(buf)) \div width)
  IN  [ok |-> fit = Len(stack), buf |-> buf \o element_bytes(stack, fit, width)]

\* the byte written for the flag
flag_byte(f) == IF f THEN 1 ELSE 0

\* the writes of tree_sitter_codon_external_scanner_serialize: buf holds the bytes
\* written when the function returns, ok is FALSE when it returns 0
serialize_writes(sc) ==
  LET b1 == bytes32(Len(sc.indents))
      w1 == write_elements(sc.indents, 1, 2, b1)
      b2 == w1.buf \o bytes32(Len(sc.delimiters))
      w2 == write_elements(sc.delimiters, 1, 4, b2)
  IN  IF ~w1.ok \/ Len(w1.buf) + 4 > BufferSize THEN [ok |-> FALSE, buf |-> w1.buf]
      ELSE IF ~w2.ok \/ Len(w2.buf) + 1 > BufferSize THEN [ok |-> FALSE, buf |-> w2.buf]
      ELSE [ok |-> TRUE, buf |-> Append(w2.buf, flag_byte(sc.inside_f_string))]

\* tree_sitter_codon_external_scanner_serialize: the bytes buffer[0 .. size-1]
\* for the size returned; the empty sequence when it returns 0
serialize(sc) ==
  LET w == serialize_writes(sc)
  IN  IF w.ok THEN w.buf ELSE <<>>

\* the loop that reads `count` elements of `width` bytes from offset size on and
\* pushes them on acc: it reads the elements that lie whole within the first
\* `length` bytes; done is FALSE when the buffer ends before the elements do
read_elements(b, length, size, count, width, acc) ==
  LET fit == Min(count, (length - size) \div width)
  IN  [done |-> fit = count,
       size |-> size + fit * width,
       stack |-> acc \o [i \in 1..fit |->
                           IF width = 2 THEN word16(b, size + width * (i - 1))
                                        ELSE word32(b, size + width * (i - 1))]]

\* the flag read back from its byte
read_flag(byte) == byte = 1

\* a plausible slip: the stacks and the flag not cleared on entry
cleared_kept(sc) == sc

\* what deserialize starts from: both stacks cleared, the flag false
cleared(sc) == create

\* tree_sitter_codon_external_scanner_deserialize on the first `length` bytes of b,
\* into the scanner sc
deserialize(sc, b, length) ==
  LET s0 == cleared(sc)
  IN  IF length = 0 THEN s0
      ELSE IF 4 > length THEN s0
      ELSE LET r1 == read_elements(b, length, 4, word32(b, 0), 2, s0.indents)
               s1 == [s0 EXCEPT !.indents = r1.stack]
           IN  IF ~r1.done \/ r1.size + 4 > length THEN s1
               ELSE LET r2 == read_elements(b, length, r1.size + 4, word32(b, r1.size), 4,
                                            s0.delimiters)
                        s2 == [s1 EXCEPT !.delimiters = r2.stack]
                    IN  IF ~r2.done THEN s2
                        ELSE IF r2.size + 1 <= length
                        THEN [s2 EXCEPT !.inside_f_string = read_flag(b[r2.size + 1])]
                        ELSE s2

(* ------------------------------- inputs -------------------------------- *)

\* the runs the enumerated texts are made of: blanks (one, two, and a run as long
\* as the range of a stored width), both line terminators, a comment mark, a
\* format and a raw prefix letter, both quotes (one, and three in a row), a
\* brace, a backslash and a plain letter
Alphabet ==
  { One(SP), Run(SP, 2), Run(SP, IndentModulus), One(LF), One(CR), One(HASH),
    One(102), One(114), One(SQ), Run(SQ, 3), One(DQ), One(LBRACE), One(BSL), One(120) }

TextsOver(alphabet, k) == UNION { [1..m -> alphabet] : m \in 0..k }

Texts(k) == TextsOver(Alphabet, k)

\* the runs the enumerated contents of a literal are made of
ContentAlphabet ==
  { One(SQ), Run(SQ, 3), One(DQ), One(LBRACE), One(BSL), One(LF), One(120) }

Contents(k) == TextsOver(ContentAlphabet, k)

\* the openings of a literal that may stand before an enumerated content
Openers ==
  { <<One(SQ)>>,
    <<One(102), One(DQ)>>,
    <<One(114), One(SQ)>>,
    <<Run(SQ, 3)>>,
    <<One(102), Run(SQ, 3)>> }

\* f'''abc{{def'''
FStringText ==
  <<One(102), Run(SQ, 3), One(97), One(98), One(99), One(LBRACE), One(LBRACE),
    One(100), One(101), One(102), Run(SQ, 3)>>

\* if x:\n    y\n
BlockText ==
  <<One(105), One(102), One(SP), One(120), One(58), One(LF), Run(SP, 4), One(121), One(LF)>>

\* three nested blocks of widths 4, 8, 12, ending at end of input
DrainText ==
  <<One(LF), Run(SP, 4), One(120), One(LF), Run(SP, 8), One(120), One(LF), Run(SP, 12), One(120)>>

\* f"{'a'}"
NestedText ==
  <<One(102), One(DQ), One(LBRACE), One(SQ), One(97), One(SQ), One(125), One(DQ)>>

\* 'ab\nc'
UnterminatedText == <<One(SQ), One(97), One(98), One(LF), One(99), One(SQ)>>

\* a block of width 4, then a line of 65537 blanks
WideText == <<One(LF), Run(SP, 4), One(120), One(LF), Run(SP, IndentModulus + 1), One(120)>>

\* an indented block holding an open format string, then end of input
MixedText == <<One(LF), Run(SP, 2), One(102), One(SQ), One(120)>>

\* two nested blocks of widths 4 and 8, then a line of width 0
DedentText ==
  <<One(LF), Run(SP, 4), One(120), One(LF), Run(SP, 8), One(120), One(LF), One(121)>>

Scenarios ==
  { FStringText, BlockText, DrainText, NestedText, UnterminatedText, WideText, MixedText,
    DedentText }

\* the inputs of the scanning specification: every text of at most MaxLen runs,
\* every opener followed by a content of at most MaxLen runs, and the scenarios
Inputs ==
  Texts(MaxLen) \cup { o \o t : o \in Openers, t \in Contents(MaxLen) } \cup Scenarios

\* what the grammar accepts inside a literal
InString == {"STRING_CONTENT", "ESCAPE_INTERPOLATION", "STRING_END"}

\* the sets of acceptable kinds a call may be given (valid_symbols): one of six
\* sets of string kinds together with one of five sets of line kinds, and the
\* two kinds INDENT and ESCAPE_INTERPOLATION each on its own
ValidSets ==
  { s \cup l :
      s \in { {}, {"STRING_START"}, {"STRING_END"}, {"STRING_CONTENT"}, InString, StringKinds },
      l \in { {}, {"NEWLINE"}, {"DEDENT"}, {"NEWLINE", "INDENT"}, LineKinds } }
  \cup { {"INDENT"}, {"ESCAPE_INTERPOLATION"} }

(* --------------------------- the state machine ------------------------- *)

\* the record of the last call: which entry point, what it was given and what it
\* returned; Idle when the caller has taken the result
Idle ==
  [op |-> "idle", valid |-> {}, ok |-> FALSE, sym |-> "NONE", start |-> 0, cur |-> 0,
   end |-> 0, length |-> 0, pre |-> create]

Start(texts) ==
  /\ input \in texts
  /\ pos = 0
  /\ indents = create.indents
  /\ delimiters = create.delimiters
  /\ inside_f_string = create.inside_f_string
  /\ buffer = <<>>
  /\ snapshot = create
  /\ last = Idle

Store(sc) ==
  /\ indents' = sc.indents
  /\ delimiters' = sc.delimiters
  /\ inside_f_string' = sc.inside_f_string

\* one call of the scan entry point with the cursor at pos
Scan(valid) ==
  /\ last = Idle
  /\ \E r \in {scan(self, pos, valid)} :
      /\ Store(r.sc)
      /\ last' = [op |-> "scan", valid |-> valid, ok |-> r.ok, sym |-> r.sym, start |-> pos,
                  cur |-> r.pos, end |-> IF r.ok THEN token_end(r) ELSE pos, length |-> 0,
                  pre |-> self]
  /\ UNCHANGED <<input, pos, buffer, snapshot>>

\* the caller takes the result of the last call: after a token the cursor is at
\* the token's end, after no match (or a restore) where it was
Take ==
  /\ last # Idle
  /\ pos' = IF last.op = "scan" /\ last.ok THEN last.end ELSE pos
  /\ last' = Idle
  /\ UNCHANGED <<input, indents, delimiters, inside_f_string, buffer, snapshot>>

\* the grammar's own lexer takes the run at the cursor as (part of) a token
LexInternal ==
  /\ last = Idle
  /\ ~eof(pos)
  /\ pos' = RunEnd(pos)
  /\ UNCHANGED <<input, indents, delimiters, inside_f_string, buffer, snapshot, last>>

\* a checkpoint: the state serialized into the buffer; last.length is the number
\* of bytes written, last.ok whether a size other than 0 was returned
Serialize ==
  /\ last = Idle
  /\ \E w \in {serialize_writes(self)} :
      /\ buffer' = (IF w.ok THEN w.buf ELSE <<>>)
      /\ last' = [Idle EXCEPT !.op = "serialize", !.ok = w.ok, !.length = Len(w.buf),
                              !.pre = self]
  /\ snapshot' = self
  /\ UNCHANGED <<input, pos, indents, delimiters, inside_f_string>>

\* the state restored from the first `length` bytes of the buffer
Restore(op, length) ==
  /\ last = Idle
  /\ \E sc \in {deserialize(self, buffer, length)} : Store(sc)
  /\ last' = [Idle EXCEPT !.op = op, !.length = length, !.pre = self]
  /\ UNCHANGED <<input, pos, buffer, snapshot>>

\* the state restored from the whole buffer of the last checkpoint
Deserialize == Restore("deserialize", Len(buffer))

\* the state restored from a buffer cut short: its first k bytes only
DeserializeTruncated(k) == Restore("truncated", k)

Init == Start(Inputs)

Next ==
  \/ \E valid \in ValidSets : Scan(valid)
  \/ Take
  \/ LexInternal

Spec == Init /\ [][Next]_vars

\* scanning with checkpoints: the state serialized, and restored later; the
\* enumerated texts are one run shorter than those of Spec
RestoreInputs ==
  Texts(MaxLen - 1) \cup { o \o t : o \in Openers, t \in Contents(MaxLen - 1) } \cup Scenarios

InitRestore == Start(RestoreInputs)

NextRestore ==
  \/ \E valid \in ValidSets : Scan(valid)
  \/ Take
  \/ LexInternal
  \/ Serialize
  \/ Deserialize

SpecRestore == InitRestore /\ [][NextRestore]_vars

\* the same, with restores from a buffer cut short
NextTruncated ==
  \/ \E valid \in ValidSets : Scan(valid)
  \/ Take
  \/ LexInternal
  \/ Serialize
  \/ Deserialize
  \/ \E k \in 0..(Len(buffer) - 1) : DeserializeTruncated(k)

SpecTruncated == InitRestore /\ [][NextTruncated]_vars

(* ------------------------------ properties ----------------------------- *)

\* the offsets at which the runs of the text start
RECURSIVE RunStartsFrom(_, _, _)
RunStartsFrom(inp, i, base) ==
  IF i > Len(inp) THEN {} ELSE {base} \cup RunStartsFrom(inp, i + 1, base + inp[i].n)

RunStarts == RunStartsFrom(input, 1, 0)

\* the run starts inside the token of the last call
InToken == { q \in RunStarts : last.start <= q /\ q < last.end }

\* the number of backslashes in a row that end just before offset q, not below lo
RECURSIVE BackslashesBefore(_, _)
BackslashesBefore(q, lo) ==
  IF q > lo /\ lookahead(q - 1) = BSL THEN 1 + BackslashesBefore(q - 1, lo) ELSE 0

\* offset q holds a backslash that starts an escape (it is not itself escaped)
Escaping(q) == lookahead(q) = BSL /\ BackslashesBefore(q, last.start) % 2 = 0

\* the last step was a scan call
Called == last.op = "scan"

Emitted(kind) == Called /\ last.ok /\ last.sym = kind

\* the delimiter that was open when the last call was entered
OpenBefore == Len(last.pre.delimiters) > 0
TopBefore == Top(last.pre.delimiters)

\* C1: a state restored from the bytes of a successful serialize equals the
\* state that was serialized, in the indent stack, the delimiter stack and the
\* flag, whatever the receiving state held before.
RoundTrip == (last.op = "deserialize" /\ Len(buffer) > 0) => self = snapshot

\* a restore into a different state of a checkpoint with an indent, an open
\* format string and the flag set
RoundTripWitness ==
  /\ last.op = "deserialize"
  /\ Len(buffer) > 0
  /\ last.pre # snapshot
  /\ Len(snapshot.indents) > 0
  /\ Len(snapshot.delimiters) > 0
  /\ snapshot.inside_f_string
  /\ self = snapshot

\* C2: deserialize of a truncated buffer (a strict prefix of a serialized state,
\* the empty one included) leaves the state all-empty.
TruncatedResets == last.op = "truncated" => self = create

\* C3: a scan call that reports no match has its cursor where the call was
\* entered.
NoMatchConsumesNothing == (Called /\ ~last.ok) => last.cur = last.start

\* C4: the indent stack is strictly increasing from bottom to top and its bottom
\* entry is greater than 0.
IndentsIncreasing ==
  \A i \in 1..Len(indents) : indents[i] > (IF i = 1 THEN 0 ELSE indents[i - 1])

\* the cursor at offset p stands at the closing sequence of delim
AtClosing(delim, p) ==
  /\ lookahead(p) = quote_of(delim)
  /\ triple_of(delim) => (lookahead(p + 1) = quote_of(delim) /\ lookahead(p + 2) = quote_of(delim))

ClosingLength(delim) == IF triple_of(delim) THEN 3 ELSE 1

\* C5: with a delimiter open and the cursor at its closing sequence, a call in
\* which STRING_END is acceptable (STRING_CONTENT too, or not; no new literal may
\* start) emits STRING_END, consumes exactly the closing sequence, pops the top
\* delimiter and recomputes the flag from the new top.
StringEndAtClosing ==
  ( /\ Called
    /\ "STRING_END" \in last.valid
    /\ "STRING_START" \notin last.valid
    /\ OpenBefore
    /\ AtClosing(TopBefore, last.start) )
  => /\ Emitted("STRING_END")
     /\ last.end = last.start + ClosingLength(TopBefore)
     /\ delimiters = Pop(last.pre.delimiters)
     /\ inside_f_string = (Len(delimiters) > 0 /\ format_of(Top(delimiters)))
     /\ indents = last.pre.indents

\* the delimiter of the literal of FStringText: ''' with the format flag
FStringDelim == pack_delim(SQ, TRUE, FALSE, TRUE)

\* C6: on f'''abc{{def''' the calls made at the token ends 0, 4, 7, 9, 12, with
\* STRING_START acceptable for the first and the in-literal kinds for the others,
\* yield STRING_START, STRING_CONTENT (abc), ESCAPE_INTERPOLATION, STRING_CONTENT
\* (def), STRING_END, and leave the delimiter stack empty and the flag false.
FStringSequence ==
  (Called /\ input = FStringText) =>
    /\ (last.start = 0 /\ last.pre = create /\ "STRING_START" \in last.valid)
         => (Emitted("STRING_START") /\ last.end = 4 /\ delimiters = <<FStringDelim>>)
    /\ ( /\ last.pre.delimiters = <<FStringDelim>>
         /\ InString \subseteq last.valid
         /\ "STRING_START" \notin last.valid )
         => /\ last.start = 4 => (Emitted("STRING_CONTENT") /\ last.end = 7)
            /\ last.start = 7 => (Emitted("ESCAPE_INTERPOLATION") /\ last.end = 9)
            /\ last.start = 9 => (Emitted("STRING_CONTENT") /\ last.end = 12)
            /\ last.start = 12 => /\ Emitted("STRING_END")
                                  /\ last.end = 15
                                  /\ delimiters = <<>>
                                  /\ ~inside_f_string

\* C7: at end of input a call in which DEDENT is acceptable pops exactly one
\* indent level and emits DEDENT while the stack is not empty, whatever else is
\* acceptable and whatever the delimiter stack holds; with the stack empty no
\* DEDENT is emitted at end of input.
DedentDrain ==
  (Called /\ eof(last.start)) =>
    /\ ("DEDENT" \in last.valid /\ Len(last.pre.indents) > 0)
         => /\ Emitted("DEDENT")
            /\ indents = Pop(last.pre.indents)
            /\ delimiters = last.pre.delimiters
            /\ inside_f_string = last.pre.inside_f_string
            /\ last.end = last.start
    /\ Len(last.pre.indents) = 0 => ~Emitted("DEDENT")

\* the stack [4, 8, 12] drained to the empty stack by the third forced DEDENT
DedentDrainWitness ==
  /\ input = DrainText
  /\ Emitted("DEDENT")
  /\ eof(last.start)
  /\ last.pre.indents = <<4>>
  /\ indents = <<>>

\* the body of the escape claim, for the strings whose delimiter satisfies applies
EscapeBody(applies) ==
  (Called /\ OpenBefore /\ applies) =>
    /\ Emitted("STRING_CONTENT")
         => \A q \in InToken : (Escaping(q) /\ lookahead(q + 1) # 0) => q + 1 < last.end
    /\ ( /\ "STRING_CONTENT" \in last.valid
         /\ lookahead(last.start) = BSL
         /\ lookahead(last.start + 1) # 0 )
         => (Emitted("STRING_CONTENT") /\ last.end >= last.start + 2)

\* C8 as stated: in any open string, raw or not, a backslash and the character
\* X after it are consumed together as content: X lies inside the content token,
\* so it neither ends the content scan as a quote nor starts interpolation.
EscapeAnyString == EscapeBody(TRUE)

\* C8 as amended: the same in any open string that is not raw.
EscapeNonRaw == EscapeBody(OpenBefore /\ ~raw_of(TopBefore))

\* an escaped quote of the delimiter's own kind taken as content
EscapeNonRawWitness ==
  /\ Emitted("STRING_CONTENT")
  /\ OpenBefore
  /\ ~raw_of(TopBefore)
  /\ lookahead(last.start) = BSL
  /\ lookahead(last.start + 1) = quote_of(TopBefore)
  /\ last.end >= last.start + 2

\* the first offset from p on that holds a quote, a backslash, a brace, a line
\* terminator or the end of input
RECURSIVE NextStop(_)
NextStop(p) ==
  IF lookahead(p) \in {0, SQ, DQ, BSL, LBRACE, LF, CR} THEN p ELSE NextStop(RunEnd(p))

\* C9: with a non-triple delimiter open, a content token never holds an
\* unescaped line terminator, plain content before a line terminator is emitted
\* up to it, no STRING_END is emitted at a line terminator, and a call there that
\* accepts only string kinds reports no match and leaves the delimiter open.
UnterminatedString ==
  (Called /\ OpenBefore /\ ~triple_of(TopBefore)) =>
    /\ Emitted("STRING_CONTENT")
         => \A q \in InToken : is_newline(lookahead(q)) => (q > last.start /\ Escaping(q - 1))
    /\ ( /\ "STRING_CONTENT" \in last.valid
         /\ "STRING_START" \notin last.valid
         /\ NextStop(last.start) > last.start
         /\ is_newline(lookahead(NextStop(last.start))) )
         => (Emitted("STRING_CONTENT") /\ last.end = NextStop(last.start))
    /\ is_newline(lookahead(last.start))
         => /\ ~Emitted("STRING_END")
            /\ last.valid \subseteq StringKinds
                 => (~last.ok /\ delimiters = last.pre.delimiters
                              /\ inside_f_string = last.pre.inside_f_string)

\* 'ab stopped at the line terminator, and the call there, with the in-literal
\* kinds acceptable, reporting no match
UnterminatedStringWitness ==
  /\ input = UnterminatedText
  /\ Called
  /\ last.start = 3
  /\ last.valid = InString
  /\ ~last.ok
  /\ delimiters = <<pack_delim(SQ, FALSE, FALSE, FALSE)>>

\* C10: the flag equals the format flag of the top delimiter, and is false when
\* no delimiter is open.
FlagFollowsTop == inside_f_string = (Len(delimiters) > 0 /\ format_of(Top(delimiters)))

\* a plain string closed inside a format string: the flag back to true
FlagFollowsTopWitness ==
  /\ Emitted("STRING_END")
  /\ Len(last.pre.delimiters) = 2
  /\ ~last.pre.inside_f_string
  /\ inside_f_string

(* ------------------------- serialize at capacity ------------------------ *)

\* the indent depths tried lie within Slack of the depth at which the encoding
\* stops fitting the buffer
Slack == 3

\* the bytes of the encoding of a state: two counts, the elements, the flag
EncodedSize(sc) == 4 + 2 * Len(sc.indents) + 4 + 4 * Len(sc.delimiters) + 1

\* the indent stack of n nested blocks, each two columns deeper
DeepIndents(n) == [i \in 1..n |-> 2 * i]

\* the delimiter stack of m nested literals: a format string, a plain string in
\* its interpolation, a format string inside that, ...
DeepDelimiters(m) ==
  [i \in 1..m |-> IF i % 2 = 1 THEN pack_delim(DQ, FALSE, FALSE, TRUE)
                               ELSE pack_delim(SQ, FALSE, FALSE, FALSE)]

DeepScanner(n, m) ==
  LET del == DeepDelimiters(m)
  IN  Scanner(DeepIndents(n), del, m > 0 /\ format_of(Top(del)))

DelimiterDepths == {0, 1, 2, 3, 100, 101, 252, 253, 254}

\* the greatest indent depth whose encoding fits, with m delimiters (below 0:
\* none fits)
FitDepth(m) == (BufferSize - 9 - 4 * m) \div 2

IndentDepths(m) == {0} \cup { n \in (FitDepth(m) - Slack)..(FitDepth(m) + Slack) : n >= 0 }

DeepScanners == UNION { { DeepScanner(n, m) : n \in IndentDepths(m) } : m \in DelimiterDepths }

\* a scanner deep in nested blocks and literals, at the end of its text
InitCapacity ==
  /\ input = <<>>
  /\ pos = 0
  /\ \E sc \in DeepScanners :
      /\ indents = sc.indents
      /\ delimiters = sc.delimiters
      /\ inside_f_string = sc.inside_f_string
  /\ buffer = <<>>
  /\ snapshot = create
  /\ last = Idle

NextCapacity ==
  \/ Serialize
  \/ Take
  \/ Deserialize

SpecCapacity == InitCapacity /\ [][NextCapacity]_vars

\* the bytes b are the encoding of sc: the indent count, the widths, the
\* delimiter count, the descriptors and the flag byte, in that order
Encodes(b, sc) ==
  LET n == Len(sc.indents)
      m == Len(sc.delimiters)
  IN  /\ Len(b) = EncodedSize(sc)
      /\ word32(b, 0) = n
      /\ \A i \in 1..n : word16(b, 4 + 2 * (i - 1)) = sc.indents[i]
      /\ word32(b, 4 + 2 * n) = m
      /\ \A j \in 1..m : word32(b, 8 + 2 * n + 4 * (j - 1)) = sc.delimiters[j]
      /\ b[9 + 2 * n + 4 * m] = (IF sc.inside_f_string THEN 1 ELSE 0)

\* C11: serialize returns 0 exactly when the encoded size 4 + 2n + 4 + 4m + 1
\* exceeds the buffer capacity; otherwise it returns that size with the counts,
\* the elements and the flag byte written in order; it never writes at an
\* offset at or beyond the capacity.
SerializeCapacity ==
  last.op = "serialize" =>
    /\ last.ok = (EncodedSize(last.pre) <= BufferSize)
    /\ last.ok => Encodes(buffer, last.pre)
    /\ ~last.ok => buffer = <<>>
    /\ last.length <= BufferSize

\* a state one byte too large: everything but the flag byte written, 0 returned
SerializeCapacityWitness ==
  /\ last.op = "serialize"
  /\ ~last.ok
  /\ Len(last.pre.indents) > 0
  /\ Len(last.pre.delimiters) > 0
  /\ EncodedSize(last.pre) = BufferSize + 1
  /\ last.length = BufferSize
  /\ buffer = <<>>

\* what each recogniser would return, entered on its own where the last call
\* was entered, with the state and the acceptable kinds of that call
StringAlone == scan_string(last.pre, last.start, -1, last.valid)
LineAlone == scan_newline(last.pre, last.start, -1, last.valid)

\* C12: a call at end of input with DEDENT acceptable and a non-empty indent
\* stack emits DEDENT, also with a delimiter open and string kinds acceptable;
\* and when a string token and a line-structure token could both match at the
\* cursor, the call emits the string token.
DispatchPriority ==
  Called =>
    /\ (eof(last.start) /\ "DEDENT" \in last.valid /\ Len(last.pre.indents) > 0)
         => /\ Emitted("DEDENT")
            /\ indents = Pop(last.pre.indents)
            /\ delimiters = last.pre.delimiters
    /\ ( /\ last.valid \cap StringKinds # {}
         /\ last.valid \cap LineKinds # {}
         /\ StringAlone.ok
         /\ LineAlone.ok )
         => /\ last.ok
            /\ last.sym = StringAlone.sym
            /\ last.sym \in StringKinds
            /\ last.end = token_end(StringAlone)
            /\ self = StringAlone.sc

\* a line terminator inside a triple-quoted literal, where NEWLINE could match
\* as well: taken as content
DispatchPriorityWitness ==
  /\ Emitted("STRING_CONTENT")
  /\ "NEWLINE" \in last.valid
  /\ is_newline(lookahead(last.start))
  /\ LineAlone.ok
  /\ LineAlone.sym = "NEWLINE"

\* C13: the kind emitted by a successful call is one of the kinds acceptable in
\* that call.
OnlyRequestedKinds == (Called /\ last.ok) => last.sym \in last.valid

\* the width of the line that starts at offset p: its leading blanks
LineWidth(p) == skip_spaces(p) - p

\* the line that starts at offset p is a content line: neither blank nor
\* comment-only, nor the end of input
ContentLine(p) ==
  LET c == lookahead(skip_spaces(p))
  IN  c # 0 /\ ~is_newline(c) /\ c # HASH

\* the start of the line the last call was to decide on: the line after the
\* terminator at the cursor, or the line the cursor is at the start of (where
\* a token that ended with the terminator left it); -1 for any other cursor
LineAhead ==
  IF is_newline(lookahead(last.start)) THEN after_terminator(last.start)
  ELSE IF last.start > 0 /\ is_newline(lookahead(last.start - 1)) THEN last.start
  ELSE -1

\* C14: with the next content line of width w and the stack top greater than w,
\* each call in which DEDENT (and no string kind) is acceptable, the first at
\* the line terminator and the following ones at the end of the token before,
\* emits DEDENT and pops exactly one level.
MultiLevelDedent ==
  ( /\ Called
    /\ "DEDENT" \in last.valid
    /\ last.valid \subseteq LineKinds
    /\ LineAhead # -1
    /\ ContentLine(LineAhead)
    /\ Len(last.pre.indents) > 0
    /\ Top(last.pre.indents) > LineWidth(LineAhead) )
  => /\ Emitted("DEDENT")
     /\ indents = Pop(last.pre.indents)

\* the last call tried the strings, failed there and went on to line structure
FellThrough ==
  /\ Called
  /\ ~forced_dedent(last.pre, last.start, last.valid)
  /\ last.valid \cap StringKinds # {}
  /\ last.valid \cap LineKinds # {}
  /\ ~StringAlone.ok

\* C15: when string recognition fails and the call falls through to line
\* structure, line structure is recognised from the offset the call was entered
\* at: the call returns what scan_newline returns from there, and its token holds
\* no character that the failed string attempt advanced over.
LineStructureFromEntry ==
  FellThrough =>
    /\ last.ok = LineAlone.ok
    /\ last.ok => /\ last.sym = LineAlone.sym
                  /\ last.end = token_end(LineAlone)
                  /\ self = LineAlone.sc
                  /\ \A q \in InToken : q >= StringAlone.pos

\* the offset after the line terminator at offset p: one character, two for CR LF
LineEnd(p) == IF lookahead(p) = CR /\ lookahead(p + 1) = LF THEN p + 2 ELSE p + 1

\* from the line that starts at offset p on: the first line that is neither
\* blank nor comment-only, as the offset of its first character after the
\* leading blanks and its width; at end of input, that offset and width 0
RECURSIVE NextContent(_)
NextContent(p) ==
  LET q == skip_spaces(p)
      c == lookahead(q)
      e == skip_comment(q)
  IN  IF c = 0 THEN [pos |-> q, width |-> 0]
      ELSE IF is_newline(c) THEN NextContent(LineEnd(q))
      ELSE IF c = HASH
      THEN IF lookahead(e) = 0 THEN [pos |-> e, width |-> 0] ELSE NextContent(LineEnd(e))
      ELSE [pos |-> q, width |-> q - p]

\* the top of the indent stack the last call was entered with; 0 when empty
TopIndentBefore == IF Len(last.pre.indents) > 0 THEN Top(last.pre.indents) ELSE 0

\* the last call was entered at a line terminator with line kinds only acceptable
AtTerminator ==
  /\ Called
  /\ last.valid # {}
  /\ last.valid \subseteq LineKinds
  /\ is_newline(lookahead(last.start))

\* what C16 says of a call at a line terminator, w being the width compared
TransparentBody(w) ==
  /\ last.cur = NextContent(LineEnd(last.start)).pos
  /\ IF w > TopIndentBefore /\ "INDENT" \in last.valid
     THEN /\ Emitted("INDENT")
          /\ Pop(indents) = last.pre.indents
          /\ w < IndentModulus => Top(indents) = w
     ELSE IF w < TopIndentBefore /\ "DEDENT" \in last.valid
     THEN /\ Emitted("DEDENT")
          /\ indents = Pop(last.pre.indents)
     ELSE /\ last.ok = ("NEWLINE" \in last.valid)
          /\ last.ok => last.sym = "NEWLINE"
          /\ indents = last.pre.indents

\* C16: a call at a line terminator consumes the whole run of blank and
\* comment-only lines after it, and the width it compares with the stack top is
\* that of the first line after the run that is neither blank nor comment-only,
\* 0 at end of input: the widths of the lines of the run decide nothing and are
\* never pushed.
BlankLinesTransparent ==
  AtTerminator => TransparentBody(NextContent(LineEnd(last.start)).width)

\* the offset at which the run that holds offset p starts
RECURSIVE RunStartFrom(_, _, _, _)
RunStartFrom(inp, i, base, p) ==
  IF i > Len(inp) THEN p
  ELSE IF p < base + inp[i].n THEN base
  ELSE RunStartFrom(inp, i + 1, base + inp[i].n, p)

\* the number of blanks in a row that end just before offset q
RECURSIVE BlanksBefore(_)
BlanksBefore(q) ==
  IF q > 0 /\ is_space(lookahead(q - 1))
  THEN LET s == RunStartFrom(input, 1, 0, q - 1) IN (q - s) + BlanksBefore(s)
  ELSE 0

\* the width measured by the last call: the blanks it skipped last, up to where
\* its cursor stopped
MeasuredWidth == BlanksBefore(last.cur)

\* C17: INDENT pushes exactly the measured width w, and the 16-bit width
\* serialized for it equals w, for every w, 65536 and more included.
IndentRecordsWidth ==
  Emitted("INDENT") =>
    /\ indents = Append(last.pre.indents, MeasuredWidth)
    /\ word16(serialize(self), 4 + 2 * (Len(indents) - 1)) = MeasuredWidth

\* the offset of the first character after the prefix letters at the cursor of
\* the last call
AfterPrefix == scan_prefix(last.start, FALSE, FALSE).pos

\* the cursor of the last call was at an empty literal: prefix letters or none,
\* a quote, the same quote again, and then no third one
AtEmptyLiteral ==
  /\ lookahead(AfterPrefix) \in {DQ, SQ}
  /\ lookahead(AfterPrefix + 1) = lookahead(AfterPrefix)
  /\ lookahead(AfterPrefix + 2) # lookahead(AfterPrefix)

\* the last call emitted the STRING_START of a literal that is not empty
OpenedLiteral == Emitted("STRING_START") /\ last.end # AfterPrefix + 2

\* C18: at an empty literal with STRING_START acceptable the call emits
\* STRING_START spanning the prefix letters and the two quotes and leaves both
\* stacks and the flag unchanged; and every call changes the number of open
\* delimiters by one up for a STRING_START that is not empty, one down for a
\* STRING_END, and not otherwise.
EmptyLiteral ==
  Called =>
    /\ ("STRING_START" \in last.valid /\ AtEmptyLiteral)
         => /\ Emitted("STRING_START")
            /\ last.end = AfterPrefix + 2
            /\ delimiters = last.pre.delimiters
            /\ inside_f_string = last.pre.inside_f_string
            /\ indents = last.pre.indents
    /\ Len(delimiters) = Len(last.pre.delimiters)
                           + (IF OpenedLiteral THEN 1 ELSE 0)
                           - (IF Emitted("STRING_END") THEN 1 ELSE 0)

\* an empty plain literal inside an open format string: nothing pushed, the
\* flag still true
EmptyLiteralWitness ==
  /\ Emitted("STRING_START")
  /\ AtEmptyLiteral
  /\ last.end = last.start + 2
  /\ Len(last.pre.delimiters) = 1
  /\ last.pre.inside_f_string
  /\ delimiters = last.pre.delimiters
  /\ inside_f_string

\* stack b is stack a, or a with one element pushed, or a with its top popped
AtMostOneStep(a, b) ==
  \/ b = a
  \/ Len(b) = Len(a) + 1 /\ Pop(b) = a
  \/ Len(a) = Len(b) + 1 /\ Pop(a) = b

\* C19: a call that reports no match leaves the indent stack, the delimiter
\* stack and the flag as they were on entry; a call that succeeds changes at
\* most one of the two stacks, by one element pushed or popped.
NoMatchKeepsState ==
  Called =>
    /\ ~last.ok => self = last.pre
    /\ last.ok => /\ indents = last.pre.indents \/ delimiters = last.pre.delimiters
                  /\ AtMostOneStep(last.pre.indents, indents)
                  /\ AtMostOneStep(last.pre.delimiters, delimiters)

\* inside a format string, the call at a single '{': no match after the cursor
\* has moved, the open delimiter and the flag kept
NoMatchKeepsStateWitness ==
  /\ Called
  /\ ~last.ok
  /\ last.cur > last.start
  /\ lookahead(last.start) = LBRACE
  /\ Len(last.pre.delimiters) > 0
  /\ last.pre.inside_f_string
  /\ self = last.pre

\* the last step was a restore, from the whole buffer or from a part of it
Restored == last.op \in {"deserialize", "truncated"}

\* receiving states to compare with: a fresh scanner, the state of the last
\* checkpoint, and a scanner with two indents, an open format string and the
\* flag set
Receivers == {create, snapshot, DeepScanner(2, 1)}

\* C20: the state after deserialize is the same whatever state receives the
\* bytes: nothing of the receiving state's indents, delimiters or flag survives.
DeserializeFromBytesOnly ==
  Restored => \A other \in Receivers : deserialize(other, buffer, last.length) = self

\* a restore into a state with an indent, an open format string and the flag
\* set, from the bytes of an earlier checkpoint without them
DeserializeFromBytesOnlyWitness ==
  /\ Restored
  /\ Len(buffer) > 0
  /\ Len(last.pre.indents) > 0
  /\ Len(last.pre.delimiters) > 0
  /\ last.pre.inside_f_string
  /\ last.pre # snapshot
  /\ indents = <<>>
  /\ delimiters = <<>>
  /\ ~inside_f_string

====
